---- MODULE Spec2Model ----
(***************************************************************************)
(* termnews (src/src/main.rs): a terminal feed reader.  One foreground     *)
(* loop draws the shared App state and handles key events; background      *)
(* tasks (one per feed refresh, one per article load) commit their result  *)
(* into the App under the state lock.  Every handler body runs with the    *)
(* lock held and without suspending, so each handler is one atomic step.   *)
(* Indices (selection, current_tab, tab_index) keep Rust's 0-based values. *)
(***************************************************************************)
EXTENDS Integers, Sequences, FiniteSets, TLC

\* ---------------------------------------------------------------- bounds
MaxRefresh == 2
MaxArticle == 1
ReaderRefresh == 1
ReaderArticle == 2
MaxScroll == 1
MaxDigit == 3
LongFeedLen == 16
MaxItems == 6
MaxSaved == 2

\* ------------------------------------------------------- program constants
FeedCap == 15

\* ------------------------------------------------------------ Option / Result
None == <<>>
Some(x) == <<x>>
IsSome(o) == o # <<>>
Unwrap(o) == o[1]
Ok(v) == [ok |-> TRUE, val |-> v]
Err == [ok |-> FALSE, val |-> <<>>]
\* Result::ok(): Ok(v) becomes Some(v), Err becomes None
ok(r) == IF r.ok THEN Some(r.val) ELSE None
\* Vec::get / slice::get with a 0-based index
Get(s, i) == IF i < Len(s) THEN Some(s[i + 1]) ELSE None
Min(a, b) == IF a < b THEN a ELSE b

\* ------------------------------------------------------------- the network
\* The feed document served at a URL: its entries, each with an optional
\* title and an optional link.  URL 4 serves more entries than the cap.
Entry(t, l) == [title |-> t, link |-> l]
FeedDoc(url) ==
  CASE url = 1 -> << Entry(Some(<<1, 1>>), Some(<<1, 1>>)), Entry(None, None) >>
    [] url = 2 -> << Entry(Some(<<2, 1>>), Some(<<2, 1>>)) >>
    [] url = 3 -> << Entry(Some(<<3, 1>>), Some(<<3, 1>>)) >>
    [] url = 4 -> [k \in 1..LongFeedLen |-> Entry(Some(<<4, k>>), Some(<<4, k>>))]
    [] OTHER -> << >>

\* What one GET of a feed URL can end in; "panic" is the spawned fetch task
\* itself dying, which its JoinHandle reports as an error.
Responses == {"ok", "timeout", "parseerr"}
Outcomes == Responses \cup {"panic"}

NoTitle == <<0, 0>>
FeedGroup(n, us) == [name |-> n, urls |-> us]

\* --------------------------------------------------------- network engines
NewsItem(url, e) ==
  [title |-> IF IsSome(e.title) THEN Unwrap(e.title) ELSE NoTitle,
   source |-> url,
   score |-> Some("RSS"),
   url |-> e.link]

\* fetch_rss without take(15).
fetch_rss_uncapped(url, resp) ==
  IF resp = "ok"
  THEN Ok([k \in 1..Len(FeedDoc(url)) |-> NewsItem(url, FeedDoc(url)[k])])
  ELSE Err

fetch_rss(url, resp) ==
  IF resp = "ok"
  THEN Ok([k \in 1..Min(Len(FeedDoc(url)), FeedCap) |-> NewsItem(url, FeedDoc(url)[k])])
  ELSE Err

\* The task spawned for one URL, as its JoinHandle yields it.
fetch_task(url, w) == IF w = "panic" THEN Err ELSE Ok(ok(fetch_rss(url, w)))

\* A join that yields the outputs in completion order.
join_in_completion_order(handles, order) == [k \in 1..Len(order) |-> handles[order[k]]]

\* futures::future::join_all: the outputs in the order the futures were
\* given, whatever order they completed in.
join_all(handles, order) == handles

RECURSIVE append_all(_)
append_all(joined) ==
  IF joined = << >> THEN << >>
  ELSE LET task == Head(joined)
       IN (IF task.ok /\ IsSome(task.val) THEN Unwrap(task.val) ELSE << >>)
            \o append_all(Tail(joined))

\* out[j] is what the fetch of the j-th URL ended in, order the positions in
\* completion order.
fetch_data_for_tab(feeds, tab_index, out, order) ==
  IF IsSome(Get(feeds, tab_index))
  THEN LET feed_group == Unwrap(Get(feeds, tab_index))
           fetch_tasks == [j \in 1..Len(feed_group.urls) |-> fetch_task(feed_group.urls[j], out[j])]
       IN Ok(append_all(join_all(fetch_tasks, order)))
  ELSE Ok(<< >>)

\* The page served at an article URL: its content-type header, whether the
\* readability extractor succeeds on its markup, and the length of the
\* trimmed text extracted from it.  Article URLs are the links of the feeds.
MinBody == 50
NoUrl == <<0, 0>>
\* The content-type headers a page can carry (none, or one whose bytes are
\* not a string and read as ""), and the sizes of a trimmed text: its count of
\* characters and its length in bytes, which is what str::len gives; the last
\* size is a text of two-byte characters.
PageCts ==
  << None, Some("text/html"), Some("application/pdf"), Some("image/png"), Some("image/jpeg"),
     Some("") >>
PageSizes ==
  << [chars |-> 0, bytes |-> 0], [chars |-> 49, bytes |-> 49], [chars |-> 50, bytes |-> 50],
     [chars |-> 30, bytes |-> 60] >>
\* The pages <<9, c, e, z>>: every header, with markup the extractor accepts
\* (e = 1) or not, of every size.
PipeUrls == {<<9, c, e, z>> : c \in DOMAIN PageCts, e \in 0..1, z \in DOMAIN PageSizes}
Page(url) ==
  IF url \in PipeUrls
  THEN [id |-> url, ct |-> PageCts[url[2]], extract |-> url[3] = 1,
        chars |-> PageSizes[url[4]].chars, bytes |-> PageSizes[url[4]].bytes]
  ELSE CASE url = <<1, 1>> ->
              [id |-> url, ct |-> Some("text/html"), extract |-> TRUE, chars |-> 50, bytes |-> 50]
         [] url = <<2, 1>> ->
              [id |-> url, ct |-> None, extract |-> FALSE, chars |-> 0, bytes |-> 0]
         [] url = <<3, 1>> ->
              [id |-> url, ct |-> Some("image/png"), extract |-> TRUE, chars |-> 0, bytes |-> 0]
         [] OTHER ->
              [id |-> url, ct |-> Some("text/html"), extract |-> TRUE, chars |-> 49, bytes |-> 49]
\* What the transport can do to one article GET: the request itself and the
\* reading of the body.
NetOutcomes == [send : {"ok", "err"}, body : {"ok", "err"}]

\* A displayable text: which of the fixed or composed messages it is, and the
\* page its composed part comes from.
Text(kind, url) == [kind |-> kind, url |-> url]
contains(ct, pat) ==
  \/ pat = "application/pdf" /\ ct = "application/pdf"
  \/ pat = "image/" /\ ct \in {"image/png", "image/jpeg"}

\* fetch_and_clean_article without the content-type check.
fetch_and_clean_article_no_media(page, net) ==
  IF net.send # "ok" \/ net.body # "ok" THEN Err
  ELSE IF page.extract
       THEN IF page.bytes < MinBody
            THEN Ok(Text("Empty Content", page.id))
            ELSE Ok(Text("Article", page.id))
       ELSE Ok(Text("Extraction Failed", page.id))

fetch_and_clean_article(page, net) ==
  IF net.send # "ok" THEN Err
  ELSE IF IsSome(page.ct)
          /\ (contains(Unwrap(page.ct), "application/pdf") \/ contains(Unwrap(page.ct), "image/"))
  THEN Ok(Text("Media File", NoUrl))
  ELSE IF net.body # "ok" THEN Err
  ELSE IF page.extract
       THEN IF page.bytes < MinBody
            THEN Ok(Text("Empty Content", page.id))
            ELSE Ok(Text("Article", page.id))
       ELSE Ok(Text("Extraction Failed", page.id))

\* The body of the task spawned by Enter, up to taking the lock.
article_task(url, net) ==
  LET r == fetch_and_clean_article(Page(url), net)
  IN IF r.ok THEN r.val ELSE Text("Failed to load article.", NoUrl)

\* ------------------------------------------------------------------- state
VARIABLES
  app,        \* the App behind Arc<Mutex<App>>
  refreshes,  \* the tasks spawned by trigger_refresh, by slot
  articles,   \* the tasks spawned by Enter, by slot
  pc,         \* where main is: "start", "loop" or "exited"
  raw_mode,   \* whether the terminal is in raw mode
  exit_code,  \* how main ended: "none", "ok", "err"
  saved_news, \* the lines of the bookmark file saved_news.md
  agg,        \* one run of fetch_data_for_tab, fetch task by fetch task
  lock,       \* who holds the Mutex around the App
  last        \* the step taken last

vars == <<app, refreshes, articles, pc, raw_mode, exit_code, saved_news, agg, lock, last>>

\* The holders of the lock: main, or the refresh or article task of a slot.
Holder(who, slot) == [who |-> who, slot |-> slot]
Unlocked == Holder("none", 0)
\* Mutex::lock().await without waiting for the lock to be free.
lock_ready_always(l) == TRUE

\* Mutex::lock().await returns once the lock is free.
lock_ready(l) == l = Unlocked

Slots == 1..3

IdleRefresh == [phase |-> "idle", tab |-> 0, origin |-> "", superseded |-> FALSE]
IdleArticle == [phase |-> "idle", url |-> NoUrl]
Free(tasks) == {i \in DOMAIN tasks : tasks[i].phase = "idle"}
FirstFree(tasks) == CHOOSE i \in Free(tasks) : \A j \in Free(tasks) : i <= j
\* A step as `last` records it; origin is filled in by a refresh task's step
\* and net by an article task's step.
NoNet == [send |-> "", body |-> ""]
Step(op, key, slot, tab, okset) ==
  [op |-> op, key |-> key, slot |-> slot, tab |-> tab, okset |-> okset,
   origin |-> "", net |-> NoNet]
\* More tasks in flight than the model has slots for.
Overflow == << >>

\* ------------------------------------------------------------ configuration
DefaultFeeds == << FeedGroup("Tech Hub", <<1>>), FeedGroup("World", <<3>>) >>
Configs == { << >>, DefaultFeeds }

\* --------------------------------------------------------------------- App
App_new(config) ==
  [items |-> << >>,
   state |-> None,
   is_loading |-> TRUE,
   current_tab |-> 0,
   config |-> config,
   view_mode |-> "List",
   article_text |-> Text("", NoUrl),
   scroll |-> 0,
   status_message |-> None]

\* next that stops at the last item.
next_no_wrap(a) ==
  IF a.items = << >> THEN a
  ELSE LET i == IF IsSome(a.state)
                THEN IF Unwrap(a.state) >= Len(a.items) - 1 THEN Len(a.items) - 1 ELSE Unwrap(a.state) + 1
                ELSE 0
       IN [a EXCEPT !.state = Some(i), !.status_message = None]

next(a) ==
  IF a.items = << >> THEN a
  ELSE LET i == IF IsSome(a.state)
                THEN IF Unwrap(a.state) >= Len(a.items) - 1 THEN 0 ELSE Unwrap(a.state) + 1
                ELSE 0
       IN [a EXCEPT !.state = Some(i), !.status_message = None]

previous(a) ==
  IF a.items = << >> THEN a
  ELSE LET i == IF IsSome(a.state)
                THEN IF Unwrap(a.state) = 0 THEN Len(a.items) - 1 ELSE Unwrap(a.state) - 1
                ELSE 0
       IN [a EXCEPT !.state = Some(i), !.status_message = None]

\* ------------------------------------------------------ refresh coordinator
\* tokio::spawn of the refresh task: it occupies the first free slot.  origin
\* records who asked for it ("startup", "switch", "manual").
\* trigger_refresh that spawns nothing while a refresh of the tab is in flight.
trigger_refresh_once(rs, tab_index, origin) ==
  IF \E i \in DOMAIN rs : rs[i].phase = "running" /\ rs[i].tab = tab_index THEN rs
  ELSE IF Free(rs) = {} THEN Overflow
  ELSE [rs EXCEPT ![FirstFree(rs)] =
          [phase |-> "running", tab |-> tab_index, origin |-> origin, superseded |-> FALSE]]

trigger_refresh(rs, tab_index, origin) ==
  IF Free(rs) = {} THEN Overflow
  ELSE [rs EXCEPT ![FirstFree(rs)] =
          [phase |-> "running", tab |-> tab_index, origin |-> origin, superseded |-> FALSE]]

\* Bookkeeping only: a running refresh is superseded once the user has
\* switched to a tab other than the one it was issued for.
Supersede(rs, tab_index) ==
  [i \in DOMAIN rs |->
     IF rs[i].phase = "running" /\ rs[i].tab # tab_index
     THEN [rs[i] EXCEPT !.superseded = TRUE] ELSE rs[i]]

\* switch_tab without its test for the tab already being current.
switch_tab_unchecked(a, rs, tab_index) ==
  [app |-> [a EXCEPT !.current_tab = tab_index,
                     !.items = << >>,
                     !.is_loading = TRUE,
                     !.status_message = None],
   refreshes |-> trigger_refresh(Supersede(rs, tab_index), tab_index, "switch")]

\* switch_tab that cancels the refreshes in flight before it launches its own.
switch_tab_cancelling(a, rs, tab_index) ==
  IF a.current_tab # tab_index
  THEN [app |-> [a EXCEPT !.current_tab = tab_index,
                          !.items = << >>,
                          !.is_loading = TRUE,
                          !.status_message = None],
        refreshes |-> trigger_refresh([i \in DOMAIN rs |-> IdleRefresh], tab_index, "switch")]
  ELSE [app |-> a, refreshes |-> rs]

\* switch_tab without items.clear().
switch_tab_keeping_items(a, rs, tab_index) ==
  IF a.current_tab # tab_index
  THEN [app |-> [a EXCEPT !.current_tab = tab_index,
                          !.is_loading = TRUE,
                          !.status_message = None],
        refreshes |-> trigger_refresh(Supersede(rs, tab_index), tab_index, "switch")]
  ELSE [app |-> a, refreshes |-> rs]

switch_tab(a, rs, tab_index) ==
  IF a.current_tab # tab_index
  THEN [app |-> [a EXCEPT !.current_tab = tab_index,
                          !.items = << >>,
                          !.is_loading = TRUE,
                          !.status_message = None],
        refreshes |-> trigger_refresh(Supersede(rs, tab_index), tab_index, "switch")]
  ELSE [app |-> a, refreshes |-> rs]

\* refresh_commit without the staleness check.
refresh_commit_unguarded(a, tab_index, its) ==
  [a EXCEPT !.items = its,
            !.is_loading = FALSE,
            !.state = IF its # << >> THEN Some(0) ELSE a.state]

\* refresh_commit that leaves the App alone when nothing was fetched.
refresh_commit_nonempty(a, tab_index, its) ==
  IF a.current_tab = tab_index /\ its # << >>
  THEN [a EXCEPT !.items = its, !.is_loading = FALSE, !.state = Some(0)]
  ELSE a

\* refresh_commit that leaves the selection where it was.
refresh_commit_keep_selection(a, tab_index, its) ==
  IF a.current_tab = tab_index
  THEN [a EXCEPT !.items = its,
                 !.is_loading = FALSE,
                 !.state = IF IsSome(a.state) THEN a.state
                           ELSE IF its # << >> THEN Some(0) ELSE a.state]
  ELSE a

\* The refresh task once it holds the lock.
refresh_commit(a, tab_index, its) ==
  IF a.current_tab = tab_index
  THEN [a EXCEPT !.items = its,
                 !.is_loading = FALSE,
                 !.state = IF its # << >> THEN Some(0) ELSE a.state]
  ELSE a

\* article_commit with a check that the reader is still open.
article_commit_guarded(a, text) ==
  IF a.view_mode = "Reading"
  THEN [a EXCEPT !.article_text = text, !.is_loading = FALSE]
  ELSE a

\* The article task once it holds the lock.
article_commit(a, text) == [a EXCEPT !.article_text = text, !.is_loading = FALSE]

\* tokio::spawn of the article task.
spawn_article(as, url) ==
  IF Free(as) = {} THEN Overflow
  ELSE [as EXCEPT ![FirstFree(as)] = [phase |-> "running", url |-> url]]

\* ------------------------------------------------------------ local file I/O
Msg(kind, title) == [kind |-> kind, title |-> title]
Line(title, url) == [title |-> title, url |-> url]
\* What the file system does to one save: the append-open, the create that
\* follows a failed open, and the write.
FsOutcomes == [open : {"ok", "err"}, create : {"ok", "err"}, write : {"ok", "err"},
               exists : BOOLEAN, template : {"ok", "err"}, editor : {"ok", "err"}]
FsOk == [open |-> "ok", create |-> "ok", write |-> "ok",
         exists |-> TRUE, template |-> "ok", editor |-> "ok"]

\* file is the bookmark file's lines before the save.
save_article(item, file, w) ==
  IF IsSome(item.url)
  THEN IF w.open = "err" /\ w.create = "err"
       THEN [msg |-> Msg("", NoTitle), file |-> file, panic |-> TRUE]
       ELSE LET opened == IF w.open = "ok" THEN file ELSE << >>
            IN IF w.write = "err"
               THEN [msg |-> Msg("Failed to save file.", NoTitle), file |-> opened, panic |-> FALSE]
               ELSE [msg |-> Msg("Saved", item.title),
                     file |-> Append(opened, Line(item.title, Unwrap(item.url))),
                     panic |-> FALSE]
  ELSE [msg |-> Msg("No URL to save.", NoTitle), file |-> file, panic |-> FALSE]

open_config_in_editor(w) ==
  IF ~w.exists /\ w.template = "err"
  THEN Msg("Failed to create config file.", NoTitle)
  ELSE IF w.editor = "ok"
       THEN Msg("Opened config file.", NoTitle)
       ELSE Msg("Could not open config file.", NoTitle)

\* ------------------------------------------------------------- key handling
DigitChars == <<"1", "2", "3", "4", "5", "6", "7", "8", "9">>
is_digit(c) == c = "0" \/ \E n \in 1..9 : DigitChars[n] = c
to_digit(c) == IF c = "0" THEN 0 ELSE CHOOSE n \in 1..9 : DigitChars[n] = c
Keys ==
  {"q", "j", "Down", "k", "Up", "r", "s", "c", "Enter", "o", "Esc", "Backspace", "0", "x"}
    \cup {DigitChars[n] : n \in 1..Min(MaxDigit, 9)}

U16Max == 65535
saturating_add(x, y) == IF x + y > U16Max THEN U16Max ELSE x + y
saturating_sub(x, y) == IF x < y THEN 0 ELSE x - y

\* The system as a key handler sees it; brk: the loop was left, panic: the
\* handler panicked.
Sys(a, rs, as, file) ==
  [app |-> a, refreshes |-> rs, articles |-> as, saved_news |-> file,
   brk |-> FALSE, panic |-> FALSE]

enter_key(s) ==
  IF IsSome(s.app.state) /\ IsSome(Get(s.app.items, Unwrap(s.app.state)))
     /\ IsSome(Unwrap(Get(s.app.items, Unwrap(s.app.state))).url)
  THEN [s EXCEPT !.app = [s.app EXCEPT !.is_loading = TRUE,
                                       !.view_mode = "Reading",
                                       !.article_text = Text("Loading article...", NoUrl),
                                       !.scroll = 0,
                                       !.status_message = None],
                 !.articles = spawn_article(s.articles,
                                Unwrap(Unwrap(Get(s.app.items, Unwrap(s.app.state))).url))]
  ELSE s

save_key(s, w) ==
  IF IsSome(s.app.state) /\ IsSome(Get(s.app.items, Unwrap(s.app.state)))
  THEN LET r == save_article(Unwrap(Get(s.app.items, Unwrap(s.app.state))), s.saved_news, w)
       IN IF r.panic THEN [s EXCEPT !.panic = TRUE]
          ELSE [s EXCEPT !.app = [s.app EXCEPT !.status_message = Some(r.msg)],
                         !.saved_news = r.file]
  ELSE s

list_key(s, key, w) ==
  CASE key \in {"j", "Down"} -> [s EXCEPT !.app = next(s.app)]
    [] key \in {"k", "Up"} -> [s EXCEPT !.app = previous(s.app)]
    [] is_digit(key) /\ key # "0" ->
         LET idx == to_digit(key) - 1
         IN IF idx < Len(s.app.config)
            THEN LET r == switch_tab(s.app, s.refreshes, idx)
                 IN [s EXCEPT !.app = r.app, !.refreshes = r.refreshes]
            ELSE s
    [] key = "r" ->
         [s EXCEPT !.app = [s.app EXCEPT !.status_message = Some(Msg("Refreshing...", NoTitle))],
                   !.refreshes = trigger_refresh(s.refreshes, s.app.current_tab, "manual")]
    [] key = "s" -> save_key(s, w)
    [] key = "c" -> [s EXCEPT !.app = [s.app EXCEPT !.status_message = Some(open_config_in_editor(w))]]
    [] key = "Enter" -> enter_key(s)
    [] key = "o" -> s
    [] OTHER -> s

reading_key(s, key) ==
  CASE key \in {"Esc", "Backspace"} -> [s EXCEPT !.app = [s.app EXCEPT !.view_mode = "List"]]
    [] key \in {"j", "Down"} -> [s EXCEPT !.app = [s.app EXCEPT !.scroll = saturating_add(s.app.scroll, 1)]]
    [] key \in {"k", "Up"} -> [s EXCEPT !.app = [s.app EXCEPT !.scroll = saturating_sub(s.app.scroll, 1)]]
    [] OTHER -> s

\* The match arm a key takes in a view mode, named by the arm's first key;
\* "_" is the catch-all arm.
arm(view_mode, key) ==
  IF key = "q" THEN "q"
  ELSE IF view_mode = "List"
  THEN CASE key \in {"j", "Down"} -> "j"
         [] key \in {"k", "Up"} -> "k"
         [] is_digit(key) /\ key # "0" -> key
         [] key \in {"r", "s", "c", "Enter", "o"} -> key
         [] OTHER -> "_"
  ELSE CASE key \in {"Esc", "Backspace"} -> "Esc"
         [] key \in {"j", "Down"} -> "j"
         [] key \in {"k", "Up"} -> "k"
         [] OTHER -> "_"

\* key_event with q leaving the loop in every view mode.
key_event_quit(s, key, w) ==
  IF key = "q"
  THEN [s EXCEPT !.brk = TRUE]
  ELSE IF s.app.view_mode = "List" THEN list_key(s, key, w) ELSE reading_key(s, key)

\* The handler of one key press, with the lock held.
key_event(s, key, w) ==
  IF key = "q" /\ s.app.view_mode # "Reading"
  THEN [s EXCEPT !.brk = TRUE]
  ELSE LET s1 == IF key = "q" THEN [s EXCEPT !.app = [s.app EXCEPT !.view_mode = "List"]] ELSE s
       IN IF s1.app.view_mode = "List" THEN list_key(s1, key, w) ELSE reading_key(s1, key)

\* ------------------------------------------------------------------ drawing
\* ui: the list widget is rendered (and handed the selection mutably) only in
\* List mode when nothing is loading.  Whether the widget then pulls an
\* out-of-range selection back depends on the widget library's version, so
\* both are allowed.
ui(a, clamps) ==
  IF a.view_mode = "List" /\ ~a.is_loading /\ clamps
  THEN [a EXCEPT !.state =
          IF a.items = << >> THEN None
          ELSE IF IsSome(a.state) /\ Unwrap(a.state) >= Len(a.items)
               THEN Some(Len(a.items) - 1) ELSE a.state]
  ELSE a

\* ----------------------------------------------------- fetch_data_for_tab
\* The worlds of one fan-out over n URLs: what each fetch ends in and the
\* order in which the fetch tasks complete.
Perms(n) == {p \in [1..n -> 1..n] : \A i, j \in 1..n : p[i] = p[j] => i = j}
NumUrls(feeds, tab_index) ==
  IF IsSome(Get(feeds, tab_index)) THEN Len(Unwrap(Get(feeds, tab_index)).urls) ELSE 0
OkSet(out) == {j \in DOMAIN out : out[j] = "ok"}
\* Result::unwrap_or_else(|_| vec![])
unwrap_or_empty(r) == IF r.ok THEN r.val ELSE << >>

AggIdle ==
  [phase |-> "idle", tab |-> 0, out |-> << >>, order |-> << >>, ok |-> TRUE, result |-> << >>]
AggFeeds ==
  << FeedGroup("Mixed", <<1, 4, 2>>), FeedGroup("Empty", << >>), FeedGroup("Quiet", <<5, 1>>) >>

\* -------------------------------------------------------------------- Init
\* The state main starts from: App::new(config) for one of the configurations,
\* nothing spawned yet, room for nr refreshes and na article loads in flight.
Start(configs, nr, na) ==
  /\ app \in {App_new(c) : c \in configs}
  /\ refreshes = [i \in 1..nr |-> IdleRefresh]
  /\ articles = [i \in 1..na |-> IdleArticle]
  /\ pc = "start"
  /\ raw_mode = FALSE
  /\ exit_code = "none"
  /\ saved_news = << >>
  /\ agg = AggIdle
  /\ lock = Unlocked
  /\ last = Step("Init", "", 0, 0, {})

Init == Start(Configs, MaxRefresh, MaxArticle)

\* main, from enable_raw_mode to the first trigger_refresh.
Setup ==
  /\ pc = "start"
  /\ \E failed \in {"none", "enable_raw_mode", "EnterAlternateScreen", "Terminal::new"} :
       /\ raw_mode' = (failed # "enable_raw_mode")
       /\ IF failed = "none"
          THEN /\ pc' = "loop"
               /\ exit_code' = exit_code
               /\ refreshes' = trigger_refresh(refreshes, 0, "startup")
          ELSE /\ pc' = "exited"
               /\ exit_code' = "err"
               /\ refreshes' = refreshes
  /\ last' = Step("Setup", "", 0, 0, {})
  /\ UNCHANGED <<app, articles, saved_news, agg, lock>>

\* Leaving main, by return or by panic, shuts the runtime down: every task
\* still in flight is cancelled.
Exit(code) ==
  /\ pc' = "exited"
  /\ exit_code' = code
  /\ refreshes' = [i \in DOMAIN refreshes |-> IdleRefresh]
  /\ articles' = [i \in DOMAIN articles |-> IdleArticle]
  /\ lock' = Unlocked

\* One frame: terminal.draw under the lock; a draw error leaves main by `?`.
Draw ==
  /\ pc = "loop"
  /\ \E clamps \in BOOLEAN :
       app' = ui(app, clamps)
  /\ \/ UNCHANGED <<pc, exit_code, refreshes, articles, lock>>
     \/ Exit("err")
  /\ last' = Step("Draw", "", 0, 0, {})
  /\ UNCHANGED <<raw_mode, saved_news, agg>>

\* event::poll or event::read failing leaves main by `?`.
PollError ==
  /\ pc = "loop"
  /\ Exit("err")
  /\ last' = Step("PollError", "", 0, 0, {})
  /\ UNCHANGED <<app, raw_mode, saved_news, agg>>

\* The end of main after the loop: each call may fail and leave by `?`.
Teardown(failed) ==
  /\ raw_mode' = (failed = "disable_raw_mode")
  /\ Exit(IF failed = "none" THEN "ok" ELSE "err")

KeyPress(key) ==
  /\ pc = "loop"
  /\ \E w \in (IF key \in {"s", "c"} THEN FsOutcomes ELSE {FsOk}) :
       LET r == key_event(Sys(app, refreshes, articles, saved_news), key, w)
       IN /\ r.refreshes # Overflow
          /\ r.articles # Overflow
          /\ r.app.scroll <= MaxScroll
          /\ Len(r.saved_news) <= MaxSaved
          /\ IF r.brk
             THEN \E failed \in {"none", "disable_raw_mode", "LeaveAlternateScreen", "show_cursor"} :
                    Teardown(failed)
             ELSE IF r.panic
                  THEN Exit("panic") /\ raw_mode' = raw_mode
                  ELSE /\ UNCHANGED <<pc, exit_code, raw_mode, lock>>
                       /\ refreshes' = r.refreshes
                       /\ articles' = r.articles
          /\ app' = r.app
          /\ saved_news' = r.saved_news
  /\ last' = Step("KeyPress", arm(app.view_mode, key), 0, 0, {})
  /\ UNCHANGED agg

\* The ways a fetch ends that the session explores; every way in Outcomes is
\* explored by the aggregation run below.
SpecOutcomes == {"ok", "timeout", "panic"}

\* The refresh task in slot i: the fan-out ends some way, then the commit.
RefreshDone(i) ==
  /\ pc = "loop"
  /\ i \in DOMAIN refreshes
  /\ refreshes[i].phase = "running"
  /\ LET t == refreshes[i].tab
         n == NumUrls(app.config, t)
     IN \E out \in [1..n -> SpecOutcomes], order \in Perms(n) :
          /\ app' = refresh_commit(app, t, unwrap_or_empty(fetch_data_for_tab(app.config, t, out, order)))
          /\ last' = [Step("RefreshDone", "", i, t, OkSet(out)) EXCEPT !.origin = refreshes[i].origin]
  /\ refreshes' = [refreshes EXCEPT ![i] = IdleRefresh]
  /\ UNCHANGED <<articles, pc, raw_mode, exit_code, saved_news, agg, lock>>

\* The article task in slot i: the pipeline ends some way, then the commit.
ArticleDone(i) ==
  /\ pc = "loop"
  /\ i \in DOMAIN articles
  /\ articles[i].phase = "running"
  /\ \E net \in NetOutcomes :
       /\ app' = article_commit(app, article_task(articles[i].url, net))
       /\ last' = [Step("ArticleDone", "", i, 0, {}) EXCEPT !.net = net]
  /\ articles' = [articles EXCEPT ![i] = IdleArticle]
  /\ UNCHANGED <<refreshes, pc, raw_mode, exit_code, saved_news, agg, lock>>

\* The session: every key but the two that touch local files.
SpecKeys == Keys \ {"s", "c", "Down", "Up", "0"}

Next ==
  \/ Setup
  \/ Draw
  \/ PollError
  \/ \E key \in SpecKeys : KeyPress(key)
  \/ \E i \in Slots : RefreshDone(i)
  \/ \E i \in Slots : ArticleDone(i)

Spec == Init /\ [][Next]_vars

\* The reader: two article loads may be in flight at once.
ReaderKeys == {"q", "Enter", "Esc", "Backspace", "r", "j", "k", "1", "2"}
ReaderInit == Start({DefaultFeeds}, ReaderRefresh, ReaderArticle)
ReaderNext ==
  \/ Setup
  \/ Draw
  \/ PollError
  \/ \E key \in ReaderKeys : KeyPress(key)
  \/ \E i \in Slots : RefreshDone(i)
  \/ \E i \in Slots : ArticleDone(i)

ReaderSpec == ReaderInit /\ [][ReaderNext]_vars

\* ---------------------------------------------- one aggregation, step by step
\* fetch_data_for_tab on its own: the fetch tasks of the group finish one at a
\* time, in any order and any way, and join_all resolves once all have.
join_ready(out) == \A j \in DOMAIN out : out[j] # "pending"

AggBegin ==
  /\ agg.phase = "idle"
  /\ \E tab_index \in 0..Len(AggFeeds) :
       agg' = [phase |-> "fetching",
               tab |-> tab_index,
               out |-> [j \in 1..NumUrls(AggFeeds, tab_index) |-> "pending"],
               order |-> << >>,
               ok |-> TRUE,
               result |-> << >>]
  /\ UNCHANGED <<app, refreshes, articles, pc, raw_mode, exit_code, saved_news, lock, last>>

FetchTaskDone(j) ==
  /\ agg.phase = "fetching"
  /\ j \in DOMAIN agg.out
  /\ agg.out[j] = "pending"
  /\ \E w \in Outcomes :
       agg' = [agg EXCEPT !.out[j] = w, !.order = Append(@, j)]
  /\ UNCHANGED <<app, refreshes, articles, pc, raw_mode, exit_code, saved_news, lock, last>>

JoinAll ==
  /\ agg.phase = "fetching"
  /\ join_ready(agg.out)
  /\ LET r == fetch_data_for_tab(app.config, agg.tab, agg.out, agg.order)
     IN agg' = [agg EXCEPT !.phase = "joined", !.ok = r.ok, !.result = unwrap_or_empty(r)]
  /\ UNCHANGED <<app, refreshes, articles, pc, raw_mode, exit_code, saved_news, lock, last>>

AggStart == Start({AggFeeds}, MaxRefresh, MaxArticle)
AggNext ==
  \/ AggBegin
  \/ \E j \in Slots : FetchTaskDone(j)
  \/ JoinAll

AggSpec == AggStart /\ [][AggNext]_vars

\* ------------------------------------------------ refreshes under fair tasks
\* A group of three sources, a second tab to switch to, and the tokio runtime
\* running every spawned refresh to its end while main is in its loop.
LiveFeeds == << FeedGroup("Tech Hub", <<1, 2, 3>>), FeedGroup("World", <<3>>) >>
LiveKeys == {"q", "r", "j", "1", "2"}
LiveInit == Start({<< >>, LiveFeeds}, MaxRefresh, MaxArticle)
LiveNext ==
  \/ Setup
  \/ Draw
  \/ PollError
  \/ \E key \in LiveKeys : KeyPress(key)
  \/ \E i \in Slots : RefreshDone(i)

\* The step of the refresh task in slot i as the task table shows it:
\* RefreshDone(i) is the one step of LiveNext that frees slot i while main
\* stays in its loop, and it can be taken whenever slot i is running.
RefreshTask(i) ==
  /\ pc = "loop"
  /\ i \in DOMAIN refreshes
  /\ refreshes[i].phase = "running"
  /\ refreshes' = [refreshes EXCEPT ![i] = IdleRefresh]
  /\ pc' = pc

LiveSpec ==
  LiveInit /\ [][LiveNext]_vars /\ \A i \in Slots : WF_<<refreshes, pc>>(RefreshTask(i))

\* ------------------------------------------------------- list navigation
\* next and previous on their own, as functions of the App: a list of every
\* length up to MaxItems, every selection within it or none (and the
\* selection a tab switch leaves over an emptied list), with and without a
\* status message on display.
NavItems(n) == [k \in 1..n |-> NewsItem(4, FeedDoc(4)[k])]
NavSelections == {None} \cup {Some(i) : i \in 0..(MaxItems - 1)}
NavApps ==
  {[App_new(DefaultFeeds) EXCEPT !.items = NavItems(t[1]),
                                 !.state = t[2],
                                 !.is_loading = FALSE,
                                 !.status_message = t[3]] :
     t \in {u \in (0..MaxItems) \X NavSelections \X {None, Some(Msg("Refreshing...", NoTitle))} :
              \/ u[2] = None
              \/ Unwrap(u[2]) < u[1]
              \/ u[1] = 0 /\ u[2] = Some(0)}}

NavInit ==
  /\ app \in NavApps
  /\ refreshes = [i \in 1..MaxRefresh |-> IdleRefresh]
  /\ articles = [i \in 1..MaxArticle |-> IdleArticle]
  /\ pc = "loop"
  /\ raw_mode = TRUE
  /\ exit_code = "none"
  /\ saved_news = << >>
  /\ agg = AggIdle
  /\ lock = Unlocked
  /\ last = Step("Init", "", 0, 0, {})

NavKeys == {"j", "Down", "k", "Up"}
NavNext == \E key \in NavKeys : KeyPress(key)

NavSpec == NavInit /\ [][NavNext]_vars

\* ------------------------------------------------------------- local files
\* The session with the two keys that touch local files, under every way the
\* file system can answer them.
SaveKeys == {"s", "c", "j", "2", "q"}
SaveInit == Start({DefaultFeeds}, ReaderRefresh, MaxArticle)
SaveNext ==
  \/ Setup
  \/ Draw
  \/ PollError
  \/ \E key \in SaveKeys : KeyPress(key)
  \/ \E i \in Slots : RefreshDone(i)

SaveSpec == SaveInit /\ [][SaveNext]_vars

\* --------------------------------------------------------- article pipeline
\* One article load on its own: the reader was opened on a link to one of the
\* pages of PipeUrls (and is still open, or was left again), and the load then
\* ends under every transport outcome.
PipeInit ==
  /\ app \in {[App_new(DefaultFeeds) EXCEPT !.view_mode = v,
                                            !.article_text = Text("Loading article...", NoUrl)] :
               v \in {"Reading", "List"}}
  /\ refreshes = [i \in 1..MaxRefresh |-> IdleRefresh]
  /\ articles \in {[i \in 1..MaxArticle |->
                      IF i = 1 THEN [phase |-> "running", url |-> u] ELSE IdleArticle] :
                   u \in PipeUrls}
  /\ pc = "loop"
  /\ raw_mode = TRUE
  /\ exit_code = "none"
  /\ saved_news = << >>
  /\ agg = AggIdle
  /\ lock = Unlocked
  /\ last = Step("Init", "", 0, 0, {})

PipeNext == \E i \in Slots : ArticleDone(i)

PipeSpec == PipeInit /\ [][PipeNext]_vars

\* ------------------------------------------------------- the lock, step by step
\* main and the tasks with every taking and dropping of the lock a step of
\* its own.  main is at "loop" (about to lock for the frame), "draw" (holding
\* the lock in terminal.draw), "poll" (in event::poll / event::read), "key"
\* (a key press read, about to lock) or "handle" (holding the lock in the key
\* handler).  A task is "running" while it fetches and "locked" once it holds
\* the lock; what its fetch ended in is drawn when it commits, and which key
\* was pressed when the key is handled: nothing depends on either before.
AcquireDraw ==
  /\ pc = "loop"
  /\ lock_ready(lock)
  /\ lock' = Holder("main", 0)
  /\ pc' = "draw"
  /\ last' = Step("AcquireDraw", "", 0, 0, {})
  /\ UNCHANGED <<app, refreshes, articles, raw_mode, exit_code, saved_news, agg>>

\* terminal.draw with the guard dropped at the end of the block, or by the
\* return of `?`.
DrawLocked ==
  /\ pc = "draw"
  /\ \E clamps \in BOOLEAN :
       app' = ui(app, clamps)
  /\ \/ /\ pc' = "poll"
        /\ lock' = Unlocked
        /\ UNCHANGED <<exit_code, refreshes, articles>>
     \/ Exit("err")
  /\ last' = Step("Draw", "", 0, 0, {})
  /\ UNCHANGED <<raw_mode, saved_news, agg>>

\* event::poll and event::read: nothing to handle, a key press, or an error.
Poll ==
  /\ pc = "poll"
  /\ \/ /\ pc' = "loop"
        /\ UNCHANGED <<exit_code, refreshes, articles, lock>>
     \/ /\ pc' = "key"
        /\ UNCHANGED <<exit_code, refreshes, articles, lock>>
     \/ Exit("err")
  /\ last' = Step("Poll", "", 0, 0, {})
  /\ UNCHANGED <<app, raw_mode, saved_news, agg>>

AcquireKey ==
  /\ pc = "key"
  /\ lock_ready(lock)
  /\ lock' = Holder("main", 0)
  /\ pc' = "handle"
  /\ last' = Step("AcquireKey", "", 0, 0, {})
  /\ UNCHANGED <<app, refreshes, articles, raw_mode, exit_code, saved_news, agg>>

\* The key handler; its guard is dropped by the r and Enter arms before they
\* spawn, by break, or at the end of the block.
HandleKey(key) ==
  /\ pc = "handle"
  /\ LET r == key_event(Sys(app, refreshes, articles, saved_news), key, FsOk)
     IN /\ r.refreshes # Overflow
        /\ r.articles # Overflow
        /\ r.app.scroll <= MaxScroll
        /\ IF r.brk
           THEN \E failed \in {"none", "disable_raw_mode", "LeaveAlternateScreen", "show_cursor"} :
                  Teardown(failed)
           ELSE /\ pc' = "loop"
                /\ lock' = Unlocked
                /\ refreshes' = r.refreshes
                /\ articles' = r.articles
                /\ UNCHANGED <<exit_code, raw_mode>>
        /\ app' = r.app
  /\ last' = Step("KeyPress", arm(app.view_mode, key), 0, 0, {})
  /\ UNCHANGED <<saved_news, agg>>

\* The refresh task of slot i, its fetch over, takes the lock.
AcquireRefresh(i) ==
  /\ pc \notin {"start", "exited"}
  /\ i \in DOMAIN refreshes
  /\ refreshes[i].phase = "running"
  /\ lock_ready(lock)
  /\ lock' = Holder("refresh", i)
  /\ refreshes' = [refreshes EXCEPT ![i].phase = "locked"]
  /\ last' = Step("AcquireRefresh", "", i, refreshes[i].tab, {})
  /\ UNCHANGED <<app, articles, pc, raw_mode, exit_code, saved_news, agg>>

\* The refresh task of slot i commits and ends, dropping its guard.
CommitRefresh(i) ==
  /\ pc \notin {"start", "exited"}
  /\ i \in DOMAIN refreshes
  /\ refreshes[i].phase = "locked"
  /\ LET t == refreshes[i].tab
         n == NumUrls(app.config, t)
     IN \E out \in [1..n -> SpecOutcomes], order \in Perms(n) :
          /\ app' = refresh_commit(app, t, unwrap_or_empty(fetch_data_for_tab(app.config, t, out, order)))
          /\ last' = [Step("RefreshDone", "", i, t, OkSet(out)) EXCEPT !.origin = refreshes[i].origin]
  /\ refreshes' = [refreshes EXCEPT ![i] = IdleRefresh]
  /\ lock' = Unlocked
  /\ UNCHANGED <<articles, pc, raw_mode, exit_code, saved_news, agg>>

\* The article task of slot i, its load over, takes the lock.
AcquireArticle(i) ==
  /\ pc \notin {"start", "exited"}
  /\ i \in DOMAIN articles
  /\ articles[i].phase = "running"
  /\ lock_ready(lock)
  /\ lock' = Holder("article", i)
  /\ articles' = [articles EXCEPT ![i].phase = "locked"]
  /\ last' = Step("AcquireArticle", "", i, 0, {})
  /\ UNCHANGED <<app, refreshes, pc, raw_mode, exit_code, saved_news, agg>>

\* The article task of slot i commits and ends, dropping its guard.
CommitArticle(i) ==
  /\ pc \notin {"start", "exited"}
  /\ i \in DOMAIN articles
  /\ articles[i].phase = "locked"
  /\ \E net \in NetOutcomes :
       /\ app' = article_commit(app, article_task(articles[i].url, net))
       /\ last' = [Step("ArticleDone", "", i, 0, {}) EXCEPT !.net = net]
  /\ articles' = [articles EXCEPT ![i] = IdleArticle]
  /\ lock' = Unlocked
  /\ UNCHANGED <<refreshes, pc, raw_mode, exit_code, saved_news, agg>>

LockKeys == {"q", "r", "2", "Enter"}
LockInit == Start({DefaultFeeds}, MaxRefresh, MaxArticle)
LockNext ==
  \/ Setup
  \/ AcquireDraw
  \/ DrawLocked
  \/ Poll
  \/ AcquireKey
  \/ \E key \in LockKeys : HandleKey(key)
  \/ \E i \in Slots : AcquireRefresh(i)
  \/ \E i \in Slots : CommitRefresh(i)
  \/ \E i \in Slots : AcquireArticle(i)
  \/ \E i \in Slots : CommitArticle(i)

LockSpec == LockInit /\ [][LockNext]_vars

\* ================================================================== claims
\* What the claims compare the code's results with, written from the feeds
\* themselves: the items a source contributes, and the blocks of the sources
\* in okset concatenated in a given order of positions.
SourceItems(url) ==
  [k \in 1..Min(Len(FeedDoc(url)), FeedCap) |-> NewsItem(url, FeedDoc(url)[k])]
RECURSIVE ConcatBlocks(_, _, _)
ConcatBlocks(urls, okset, ord) ==
  IF ord = << >> THEN << >>
  ELSE (IF Head(ord) \in okset THEN SourceItems(urls[Head(ord)]) ELSE << >>)
         \o ConcatBlocks(urls, okset, Tail(ord))
GroupUrls(feeds, t) == IF t < Len(feeds) THEN feeds[t + 1].urls ELSE << >>
ExpectedItems(feeds, t, okset) ==
  ConcatBlocks(GroupUrls(feeds, t), okset, [j \in 1..Len(GroupUrls(feeds, t)) |-> j])
Running(tasks, i) == i \in DOMAIN tasks /\ tasks[i].phase = "running"

\* C1: when the refresh issued for tab t completes, it stores its items,
\* clears is_loading and (for a non-empty result) selects index 0 exactly when
\* current_tab = t at that moment; when current_tab # t no field of the App
\* changes.
C1_StalenessGuard ==
  [][\A i \in Slots :
       (Running(refreshes, i) /\ last'.op = "RefreshDone" /\ last'.slot = i) =>
         LET t == refreshes[i].tab
             its == ExpectedItems(app.config, t, last'.okset)
         IN IF app.current_tab = t
            THEN app' = [app EXCEPT !.items = its,
                                    !.is_loading = FALSE,
                                    !.state = IF its # << >> THEN Some(0) ELSE app.state]
            ELSE app' = app]_vars

\* A refresh for a tab the user has left completed while the tab switched to
\* was still loading.
C1_Witness ==
  /\ last.op = "RefreshDone"
  /\ last.tab # app.current_tab
  /\ last.okset # {}
  /\ app.is_loading
  /\ app.items = << >>

\* C2 (as claimed): a refresh launched by switchTab(A) and still running when
\* switchTab(B), B # A, happens never changes items or is_loading afterwards,
\* whatever the user does next.
C2_SupersededNeverCommits ==
  [][\A i \in Slots :
       (Running(refreshes, i) /\ last'.op = "RefreshDone" /\ last'.slot = i
          /\ refreshes[i].origin = "switch" /\ refreshes[i].superseded) =>
         (app'.items = app.items /\ app'.is_loading = app.is_loading)]_vars

\* C3: a digit key for the tab that is already current changes nothing of the
\* App and spawns no refresh.
C3_SwitchSameTabNoop ==
  [][\A n \in 1..9 :
       (pc = "loop" /\ app.view_mode = "List" /\ app.current_tab = n - 1
          /\ last'.op = "KeyPress" /\ last'.key = DigitChars[n]) =>
         (app' = app /\ refreshes' = refreshes /\ articles' = articles)]_vars

\* Key 1 was pressed on tab 0 with a list and a status message on display.
C3_Witness ==
  /\ pc = "loop"
  /\ last.op = "KeyPress"
  /\ last.key = "1"
  /\ app.current_tab = 0
  /\ Len(app.config) > 0
  /\ app.items # << >>
  /\ ~app.is_loading
  /\ IsSome(app.status_message)

\* C4 (as claimed): either a selection is present and below the number of
\* items, or there are no items and no selection.
C4_SelectionInRange ==
  \/ IsSome(app.state) /\ Unwrap(app.state) < Len(app.items)
  \/ app.items = << >> /\ app.state = None

\* C5 (as claimed): current_tab is a valid index into the configured feed
\* groups, whatever the configuration, the empty one included.
C5_CurrentTabValid == app.current_tab < Len(app.config)

\* The aggregation has produced its result.
Joined == agg.phase = "joined"
AggUrls == GroupUrls(AggFeeds, agg.tab)
Sources(urls, okset) == {urls[j] : j \in okset}
FromSource(its, url) == SelectSeq(its, LAMBDA it : it.source = url)

\* C6: the aggregate of a group holds, for each source that succeeded, exactly
\* that source's items up to the first 15, and nothing of a source that failed
\* (network error, timeout, parse error or a dead task); for a group without
\* URLs, with every source failing, or a tab index out of range it is the
\* empty sequence, and never an error.
C6_AggregateOfSuccessful ==
  Joined =>
    /\ agg.ok
    /\ \A j \in DOMAIN agg.out :
         FromSource(agg.result, AggUrls[j]) =
           IF j \in OkSet(agg.out) THEN SourceItems(AggUrls[j]) ELSE << >>
    /\ \A k \in DOMAIN agg.result :
         agg.result[k].source \in Sources(AggUrls, OkSet(agg.out))
    /\ \A j \in DOMAIN agg.out : Len(FromSource(agg.result, AggUrls[j])) <= FeedCap
    /\ (OkSet(agg.out) = {} \/ AggUrls = << >> \/ agg.tab >= Len(AggFeeds)) =>
         agg.result = << >>

\* One of three sources timed out, one served more entries than the cap: the
\* aggregate is the two items of the first source and 15 of the long one.
C6_Witness ==
  /\ Joined
  /\ agg.tab = 0
  /\ agg.out = <<"ok", "ok", "timeout">>
  /\ Len(agg.result) = 2 + FeedCap
  /\ Len(FeedDoc(AggUrls[2])) > FeedCap

\* C7 (as claimed): the blocks of the successful sources are concatenated in
\* the order in which the fetch tasks completed.
C7_CompletionOrder ==
  Joined => agg.result = ConcatBlocks(AggUrls, OkSet(agg.out), agg.order)

\* C7 (amended): the aggregation produces its result only once every fetch
\* task of the group has finished, and concatenates the blocks of the
\* successful sources in the order of the group's URLs, whatever order the
\* tasks completed in.
C7_WaitsAllSourceOrder ==
  Joined =>
    /\ \A j \in DOMAIN agg.out : agg.out[j] # "pending"
    /\ Len(agg.order) = Len(AggUrls)
    /\ agg.result = ExpectedItems(AggFeeds, agg.tab, OkSet(agg.out))

\* The third task completed first, the first one last, and both delivered.
C7_Witness ==
  /\ Joined
  /\ agg.tab = 0
  /\ agg.order = <<3, 2, 1>>
  /\ agg.out = <<"ok", "parseerr", "ok">>
  /\ Len(agg.result) = 3
  /\ agg.result[1].source = AggUrls[1]

\* The refresh of slot i, issued for tab t, has committed.
Committed(i, t) ==
  /\ last.op = "RefreshDone"
  /\ last.slot = i
  /\ last.tab = t
  /\ ~app.is_loading
  /\ app.items = ExpectedItems(app.config, t, last.okset)
Tabs == 0..1

\* C8 (as claimed): with the refresh tasks scheduled fairly, a refresh running
\* for the current tab t commits (items = the aggregate of the successful
\* sources of t, is_loading = FALSE) unless a tab switch comes first.
C8_RefreshEventuallyCommits ==
  \A i \in Slots : \A t \in Tabs :
    (Running(refreshes, i) /\ refreshes[i].tab = t /\ app.current_tab = t)
      ~> (Committed(i, t) \/ app.current_tab # t)

\* C8 (amended): with the refresh tasks scheduled fairly, a refresh running
\* for the current tab t commits unless a tab switch comes first or main
\* leaves its loop (quit, terminal error) before the refresh has completed.
C8_CommitsUnlessExit ==
  \A i \in Slots : \A t \in Tabs :
    (Running(refreshes, i) /\ refreshes[i].tab = t /\ app.current_tab = t)
      ~> (Committed(i, t) \/ app.current_tab # t \/ pc = "exited")

\* Tab 0 of three sources committed with the second source timed out.
C8_Witness ==
  /\ Committed(last.slot, 0)
  /\ pc = "loop"
  /\ Len(GroupUrls(app.config, 0)) = 3
  /\ last.okset = {1, 3}
  /\ Len(app.items) = 3

\* C9: an article load that completes stores its text and clears is_loading
\* whatever the view mode, the current tab, the other loads and refreshes in
\* flight; nothing else of the App changes.
C9_ArticleCommitUnconditional ==
  [][\A i \in Slots :
       (Running(articles, i) /\ last'.op = "ArticleDone" /\ last'.slot = i) =>
         \E net \in NetOutcomes :
           app' = [app EXCEPT !.article_text = article_task(articles[i].url, net),
                              !.is_loading = FALSE]]_vars

\* An article of tab 0 was committed in List mode on tab 1, with a later
\* article load and the refresh of tab 1 still in flight.
C9_Witness ==
  /\ last.op = "ArticleDone"
  /\ app.view_mode = "List"
  /\ app.current_tab = 1
  /\ app.article_text = Text("Article", <<1, 1>>)
  /\ ~app.is_loading
  /\ \E i \in DOMAIN articles : articles[i].phase = "running"
  /\ \E i \in DOMAIN refreshes : refreshes[i].phase = "running"

HasSelectedUrl(a) ==
  /\ IsSome(a.state)
  /\ Unwrap(a.state) < Len(a.items)
  /\ IsSome(a.items[Unwrap(a.state) + 1].url)
Launched(as, bs) == {i \in DOMAIN as : as[i].phase = "idle" /\ bs[i].phase = "running"}
IsKey(l, ks) == l.op = "KeyPress" /\ l.key \in ks

\* C10: List becomes Reading only by Enter on a selected, existing item with a
\* URL (then is_loading, scroll 0, no status message, one article load
\* launched), any other Enter changes nothing; Reading becomes List only by
\* Esc, Backspace or q, and each of them does so; main ends normally only by q
\* in List, and q in Reading keeps it in its loop.
C10_ViewModeMachine ==
  [][/\ (app.view_mode = "List" /\ app'.view_mode = "Reading") =>
          /\ IsKey(last', {"Enter"})
          /\ HasSelectedUrl(app)
          /\ app'.is_loading
          /\ app'.scroll = 0
          /\ app'.status_message = None
          /\ Cardinality(Launched(articles, articles')) = 1
          /\ \A i \in DOMAIN articles :
               i \notin Launched(articles, articles') => articles'[i] = articles[i]
     /\ (pc = "loop" /\ app.view_mode = "List" /\ IsKey(last', {"Enter"})) =>
          IF HasSelectedUrl(app)
          THEN app'.view_mode = "Reading"
          ELSE app' = app /\ articles' = articles /\ refreshes' = refreshes /\ pc' = pc
     /\ (app.view_mode = "Reading" /\ app'.view_mode = "List") =>
          IsKey(last', {"Esc", "q"})
     /\ (pc = "loop" /\ app.view_mode = "Reading" /\ IsKey(last', {"Esc", "q"})) =>
          app'.view_mode = "List" /\ pc' = "loop" /\ exit_code' = "none"
     /\ (exit_code # "ok" /\ exit_code' = "ok") =>
          IsKey(last', {"q"}) /\ app.view_mode = "List"]_vars

\* q in Reading, the article still loading, led back to the list and main
\* went on.
C10_Witness ==
  /\ IsKey(last, {"q"})
  /\ app.view_mode = "List"
  /\ pc = "loop"
  /\ exit_code = "none"
  /\ app.article_text = Text("Loading article...", NoUrl)
  /\ app.is_loading

\* C11: on a list of n > 0 items with selection i < n, next selects
\* (i + 1) mod n and previous selects (i - 1 + n) mod n; with no selection
\* both select 0; on an empty list both leave the App as it is.
C11_NextPreviousWrap ==
  [][(IsKey(last', {"j", "k"}) /\ (IsSome(app.state) => Unwrap(app.state) < Len(app.items)
                                                         \/ app.items = << >>)) =>
       LET n == Len(app.items)
       IN IF n = 0 THEN app' = app
          ELSE /\ app'.items = app.items
               /\ app'.state =
                    IF IsSome(app.state)
                    THEN IF last'.key = "j"
                         THEN Some((Unwrap(app.state) + 1) % n)
                         ELSE Some((Unwrap(app.state) - 1 + n) % n)
                    ELSE Some(0)]_vars

\* previous at index 0 of three items went to index 2.
C11_Witness ==
  /\ IsKey(last, {"k"})
  /\ Len(app.items) = 3
  /\ app.state = Some(2)

Selected(a) == a.items[Unwrap(a.state) + 1]
HasSelected(a) == IsSome(a.state) /\ Unwrap(a.state) < Len(a.items)

\* C12 (as claimed): every save of an item with a URL appends exactly the one
\* line of that item to the bookmark file and leaves the lines already there
\* unchanged and in place, on every path through the save; a save of an item
\* without a URL appends nothing.
C12_SaveAppendsOneLine ==
  [][(pc = "loop" /\ app.view_mode = "List" /\ IsKey(last', {"s"}) /\ HasSelected(app)) =>
       IF IsSome(Selected(app).url)
       THEN saved_news' = Append(saved_news, Line(Selected(app).title, Unwrap(Selected(app).url)))
       ELSE saved_news' = saved_news]_vars

\* C13 (as claimed): whenever main has ended, by the quit key or by an error
\* of terminal setup, drawing or input, the terminal is out of raw mode.
C13_TerminalRestored == pc = "exited" => ~raw_mode

\* C14 (as claimed): a bookmark save or a config-file creation never ends the
\* process, whatever the file system answers: main stays in its loop.
C14_FileFailureNeverFatal ==
  [][(pc = "loop" /\ IsKey(last', {"s", "c"})) => (pc' = "loop" /\ exit_code' = "none")]_vars

\* The five outcomes of the claim, in its order; short tells which texts are
\* too short to be an article.
IsMedia(page) ==
  IsSome(page.ct) /\ Unwrap(page.ct) \in {"application/pdf", "image/png", "image/jpeg"}
TransportFails(page, net) == net.send = "err" \/ (~IsMedia(page) /\ net.body = "err")
FiveOutcomes(page, net, short) ==
  IF TransportFails(page, net) THEN Text("Failed to load article.", NoUrl)
  ELSE IF IsMedia(page) THEN Text("Media File", NoUrl)
  ELSE IF ~page.extract THEN Text("Extraction Failed", page.id)
  ELSE IF short THEN Text("Empty Content", page.id)
  ELSE Text("Article", page.id)

\* C15 (as claimed): the article load ends in exactly one of the five texts,
\* the Empty Content advisory being the one for an extracted text of fewer
\* than 50 characters.
C15_FiveOutcomesByChars ==
  [][\A i \in Slots :
       (Running(articles, i) /\ last'.op = "ArticleDone" /\ last'.slot = i) =>
         LET page == Page(articles[i].url)
         IN app'.article_text = FiveOutcomes(page, last'.net, page.chars < MinBody)]_vars

\* C15 (amended): the article load ends in exactly one of the five texts, in
\* the claim's order, the Empty Content advisory being the one for an
\* extracted text of fewer than 50 bytes, and a failure to read the body of a
\* page that is not a media file being a transport failure.
C15_FiveOutcomesByBytes ==
  [][\A i \in Slots :
       (Running(articles, i) /\ last'.op = "ArticleDone" /\ last'.slot = i) =>
         LET page == Page(articles[i].url)
         IN app'.article_text = FiveOutcomes(page, last'.net, page.bytes < MinBody)]_vars

\* A text of 30 characters in 60 bytes was shown as the article.
C15_Witness ==
  /\ last.op = "ArticleDone"
  /\ app.article_text.kind = "Article"
  /\ Page(app.article_text.url).chars < MinBody
  /\ ~app.is_loading

\* Who is inside a section of code that holds the lock.
Holders ==
  (IF pc \in {"draw", "handle"} THEN {Holder("main", 0)} ELSE {})
    \cup {Holder("refresh", i) : i \in {j \in DOMAIN refreshes : refreshes[j].phase = "locked"}}
    \cup {Holder("article", i) : i \in {j \in DOMAIN articles : articles[j].phase = "locked"}}

\* C16: at most one of main and the tasks holds the lock at any time, main
\* holds none while it waits for input or for the lock, a task holds none
\* while it fetches; and every step that reads the App for a frame or writes
\* it is taken by the holder of the lock.
C16_LockDiscipline ==
  /\ [](/\ Cardinality(Holders) <= 1
        /\ Holders = (IF lock = Unlocked THEN {} ELSE {lock})
        /\ pc \in {"loop", "poll", "key"} => lock.who # "main"
        /\ \A i \in DOMAIN refreshes : refreshes[i].phase = "running" => lock # Holder("refresh", i)
        /\ \A i \in DOMAIN articles : articles[i].phase = "running" => lock # Holder("article", i))
  /\ [][(app' # app \/ last'.op \in {"Draw", "KeyPress", "RefreshDone", "ArticleDone"}) =>
          /\ lock # Unlocked
          /\ last'.op \in {"Draw", "KeyPress"} => lock = Holder("main", 0)
          /\ last'.op = "RefreshDone" => lock = Holder("refresh", last'.slot)
          /\ last'.op = "ArticleDone" => lock = Holder("article", last'.slot)]_vars

\* A refresh task and an article task wait for the lock while main holds it
\* in the key handler.
C16_Witness ==
  /\ pc = "handle"
  /\ lock = Holder("main", 0)
  /\ \E i \in DOMAIN refreshes : refreshes[i].phase = "running"
  /\ \E i \in DOMAIN articles : articles[i].phase = "running"

\* The refreshes in flight before a step are in flight after it, for the same
\* tab.
KeepsRefreshes(rs, rt) ==
  \A i \in DOMAIN rs :
    rs[i].phase = "running" => (rt[i].phase = "running" /\ rt[i].tab = rs[i].tab)

\* C17: a digit key for an existing tab other than the current one sets
\* current_tab to it, empties items, sets is_loading, clears the status
\* message and changes nothing else of the App; it launches exactly one
\* refresh, carrying that tab index, and leaves every refresh in flight
\* running.
C17_SwitchTabEffects ==
  [][\A n \in 1..9 :
       (pc = "loop" /\ app.view_mode = "List" /\ IsKey(last', {DigitChars[n]})
          /\ n - 1 < Len(app.config) /\ app.current_tab # n - 1) =>
         /\ app' = [app EXCEPT !.current_tab = n - 1,
                               !.items = << >>,
                               !.is_loading = TRUE,
                               !.status_message = None]
         /\ Cardinality(Launched(refreshes, refreshes')) = 1
         /\ \A i \in Launched(refreshes, refreshes') : refreshes'[i].tab = n - 1
         /\ KeepsRefreshes(refreshes, refreshes')]_vars

\* Key 2 on tab 0 with items on display: tab 1 is loading with an empty list,
\* and the refresh of tab 0 that was in flight still is, next to the new one.
C17_Witness ==
  /\ IsKey(last, {"2"})
  /\ app.current_tab = 1
  /\ app.items = << >>
  /\ app.is_loading
  /\ IsSome(app.state)
  /\ \E i, j \in DOMAIN refreshes :
       /\ refreshes[i].phase = "running" /\ refreshes[i].tab = 0
       /\ refreshes[j].phase = "running" /\ refreshes[j].tab = 1

\* C18: key r in List mode launches one refresh for the current tab, also
\* while another one for that tab is in flight, and changes nothing of the App
\* but the status message; and every refresh that completes while its tab is
\* current commits, so that the items are those of the refresh that completed
\* last, whenever it was requested.
C18_ManualRefreshRaces ==
  [][/\ (pc = "loop" /\ app.view_mode = "List" /\ IsKey(last', {"r"})) =>
          /\ app' = [app EXCEPT !.status_message = Some(Msg("Refreshing...", NoTitle))]
          /\ Cardinality(Launched(refreshes, refreshes')) = 1
          /\ \A i \in Launched(refreshes, refreshes') : refreshes'[i].tab = app.current_tab
          /\ KeepsRefreshes(refreshes, refreshes')
     /\ \A i \in Slots :
          (Running(refreshes, i) /\ last'.op = "RefreshDone" /\ last'.slot = i
             /\ refreshes[i].tab = app.current_tab) =>
            /\ app'.items = ExpectedItems(app.config, app.current_tab, last'.okset)
            /\ ~app'.is_loading]_vars

\* The refresh requested at startup completed after every later refresh of
\* tab 0, one of which had put items on display, and left its own, empty,
\* result.
C18_Witness ==
  /\ last.op = "RefreshDone"
  /\ last.origin = "startup"
  /\ last.okset = {}
  /\ Len(app.config) > 0
  /\ app.current_tab = 0
  /\ app.items = << >>
  /\ IsSome(app.state)
  /\ IsSome(app.status_message)
  /\ \A i \in DOMAIN refreshes : refreshes[i].phase = "idle"

\* C19: whenever there are items, a selection is present and refers to one of
\* them.
C19_SelectionValidWhenItems ==
  app.items # << >> => (IsSome(app.state) /\ Unwrap(app.state) < Len(app.items))

\* The one item of tab 1 was committed after the second of the two items of
\* tab 0 had been selected: the selection is back on an existing item.
C19_Witness ==
  /\ last.op = "RefreshDone"
  /\ last.origin = "switch"
  /\ app.current_tab = 1
  /\ Len(app.items) = 1
  /\ app.state = Some(0)
  /\ Len(SourceItems(GroupUrls(app.config, 0)[1])) = 2

\* C20: every item on display comes from a source of the current tab's feed
\* group (no two feed groups of a configuration share a source).
C20_ItemsOfCurrentTab ==
  \A k \in DOMAIN app.items :
    app.items[k].source \in Sources(GroupUrls(app.config, app.current_tab),
                                    DOMAIN GroupUrls(app.config, app.current_tab))

\* The result of a refresh of tab 0 was dropped while the items of tab 1 were
\* on display.
C20_Witness ==
  /\ last.op = "RefreshDone"
  /\ last.tab = 0
  /\ last.okset # {}
  /\ app.current_tab = 1
  /\ app.items # << >>
  /\ ~app.is_loading

\* The refresh launched by the latest tab switch is still in flight: it was
\* issued by switch_tab for the tab that is current, and no switch to another
\* tab has happened since.
SwitchRefreshInFlight(a, rs) ==
  \E i \in DOMAIN rs :
    /\ rs[i].phase = "running"
    /\ rs[i].origin = "switch"
    /\ rs[i].tab = a.current_tab
    /\ ~rs[i].superseded

\* C21: while the refresh launched by the latest tab switch is in flight,
\* is_loading goes from true to false only by the commit of a refresh issued
\* for the current tab; no other completion clears it.
C21_LoadingUntilRefreshCommits ==
  [][(SwitchRefreshInFlight(app, refreshes) /\ app.is_loading /\ ~app'.is_loading) =>
       (last'.op = "RefreshDone" /\ last'.tab = app.current_tab)]_vars

====
